---- MODULE Spec2Model ----
(***************************************************************************)
(* MindEase chat UI (src/src/App.tsx): the session store, the conversation *)
(* controller, the crisis detector and the reply parser, as a state        *)
(* machine.                                                                *)
(*                                                                         *)
(* Strings are sequences of one-character strings, so that slice, trim,    *)
(* split, includes and the regular expression of the reply parser are      *)
(* computed rather than assumed.  A character outside ASCII is written as  *)
(* the one element "U+XXXX".                                               *)
(*                                                                         *)
(* isSidebarOpen and isPrivacyAccepted change the layout alone and are left *)
(* out.                                                                    *)
(*                                                                         *)
(* React runs one event handler at a time and renders before it delivers   *)
(* the next event, so a handler reads the state left by the previous       *)
(* event.  The part of an async handler that follows its await runs later, *)
(* with the values its closure captured when the handler was called.       *)
(***************************************************************************)
EXTENDS Integers, Sequences, FiniteSets, Bags, TLC

\* ------------------------------------------------------------------ bounds
\* The events (user actions, replies) handled in one run.
MaxEvents == 6

\* The user actions of one run in which every reply is awaited.
MaxUserEvents == 6

\* The clicks on the timer and its overlay in one run; ticks are not counted.
MaxTimerClicks == 6

\* ------------------------------------------------------------- fixed texts
\* App.tsx:102, the seeded message of the first-run session
WelcomeText ==
  <<"H", "i", " ", "t", "h", "e", "r", "e", ".", " ", "I", "'", "m", " ",
    "M", "i", "n", "d", "E", "a", "s", "e", ".", " ", "I", " ", "k", "n",
    "o", "w", " ", "t", "h", "i", "n", "g", "s", " ", "c", "a", "n", " ",
    "f", "e", "e", "l", " ", "o", "v", "e", "r", "w", "h", "e", "l", "m",
    "i", "n", "g", " ", "r", "i", "g", "h", "t", " ", "n", "o", "w", ",",
    " ", "b", "u", "t", " ", "I", "'", "m", " ", "h", "e", "r", "e", " ",
    "t", "o", " ", "h", "e", "l", "p", ".", " ", "\n", "\n", "B", "e", "f",
    "o", "r", "e", " ", "w", "e", " ", "s", "t", "a", "r", "t", ",", " ",
    "o", "n", " ", "a", " ", "s", "c", "a", "l", "e", " ", "f", "r", "o",
    "m", " ", "1", "U+2013", "5", ",", " ", "h", "o", "w", " ", "o", "v",
    "e", "r", "w", "h", "e", "l", "m", "e", "d", " ", "a", "r", "e", " ",
    "y", "o", "u", " ", "r", "i", "g", "h", "t", " ", "n", "o", "w", "?">>

\* App.tsx:149, the seeded message of a created session
NewChatWelcomeText ==
  <<"H", "i", " ", "t", "h", "e", "r", "e", ".", " ", "I", "'", "m", " ",
    "M", "i", "n", "d", "E", "a", "s", "e", ".", " ", "B", "e", "f", "o",
    "r", "e", " ", "w", "e", " ", "d", "i", "v", "e", " ", "i", "n", ",",
    " ", "o", "n", " ", "a", " ", "s", "c", "a", "l", "e", " ", "f", "r",
    "o", "m", " ", "1", "U+2013", "5", ",", " ", "h", "o", "w", " ", "o",
    "v", "e", "r", "w", "h", "e", "l", "m", "e", "d", " ", "a", "r", "e",
    " ", "y", "o", "u", " ", "r", "i", "g", "h", "t", " ", "n", "o", "w", "?">>

\* App.tsx:455, the message Clear Chat leaves
ClearedText ==
  <<"C", "h", "a", "t", " ", "c", "l", "e", "a", "r", "e", "d", ".", " ",
    "H", "o", "w", " ", "a", "r", "e", " ", "y", "o", "u", " ", "f", "e",
    "e", "l", "i", "n", "g", " ", "n", "o", "w", "?">>

\* App.tsx:227, the fixed safety message
CrisisText ==
  <<"I", "'", "m", " ", "r", "e", "a", "l", "l", "y", " ", "c", "o", "n",
    "c", "e", "r", "n", "e", "d", " ", "a", "b", "o", "u", "t", " ", "w",
    "h", "a", "t", " ", "y", "o", "u", "'", "r", "e", " ", "s", "a", "y",
    "i", "n", "g", ".", " ", "P", "l", "e", "a", "s", "e", " ", "k", "n",
    "o", "w", " ", "t", "h", "a", "t", " ", "y", "o", "u", "'", "r", "e",
    " ", "n", "o", "t", " ", "a", "l", "o", "n", "e", " ", "a", "n", "d",
    " ", "t", "h", "e", "r", "e", " ", "i", "s", " ", "s", "u", "p", "p",
    "o", "r", "t", " ", "a", "v", "a", "i", "l", "a", "b", "l", "e", ".",
    " ", "\n", "\n", "*", "*", "I", "m", "m", "e", "d", "i", "a", "t", "e",
    " ", "H", "e", "l", "p", ":", "*", "*", "\n", "-", " ", "C", "o", "n",
    "t", "a", "c", "t", " ", "y", "o", "u", "r", " ", "s", "c", "h", "o",
    "o", "l", " ", "c", "o", "u", "n", "s", "e", "l", "o", "r", " ", "i",
    "m", "m", "e", "d", "i", "a", "t", "e", "l", "y", ".", "\n", "-", " ",
    "I", "n", "t", "e", "r", "n", "a", "t", "i", "o", "n", "a", "l", ":",
    " ", "[", "B", "e", "f", "r", "i", "e", "n", "d", "e", "r", "s", " ",
    "W", "o", "r", "l", "d", "w", "i", "d", "e", "]", "(", "h", "t", "t",
    "p", "s", ":", "/", "/", "w", "w", "w", ".", "b", "e", "f", "r", "i",
    "e", "n", "d", "e", "r", "s", ".", "o", "r", "g", "/", ")", "\n", "-",
    " ", "C", "r", "i", "s", "i", "s", " ", "T", "e", "x", "t", " ", "L",
    "i", "n", "e", ":", " ", "T", "e", "x", "t", " ", "H", "O", "M", "E",
    " ", "t", "o", " ", "7", "4", "1", "7", "4", "1", "\n", "\n", "P", "l",
    "e", "a", "s", "e", " ", "r", "e", "a", "c", "h", " ", "o", "u", "t",
    " ", "t", "o", " ", "a", " ", "t", "r", "u", "s", "t", "e", "d", " ",
    "a", "d", "u", "l", "t", " ", "o", "r", " ", "p", "r", "o", "f", "e",
    "s", "s", "i", "o", "n", "a", "l", " ", "r", "i", "g", "h", "t", " ",
    "n", "o", "w", ".">>

\* App.tsx:256, substituted for a reply without text
EmptyReplyFallback ==
  <<"I", "'", "m", " ", "h", "e", "r", "e", " ", "f", "o", "r", " ", "y",
    "o", "u", ",", " ", "b", "u", "t", " ", "I", "'", "m", " ", "h", "a",
    "v", "i", "n", "g", " ", "a", " ", "l", "i", "t", "t", "l", "e", " ",
    "t", "r", "o", "u", "b", "l", "e", " ", "c", "o", "n", "n", "e", "c",
    "t", "i", "n", "g", ".", " ", "C", "o", "u", "l", "d", " ", "y", "o",
    "u", " ", "t", "r", "y", " ", "s", "a", "y", "i", "n", "g", " ", "t",
    "h", "a", "t", " ", "a", "g", "a", "i", "n", "?">>

\* App.tsx:269, appended when the chat call rejects
ChatFailureFallback ==
  <<"I", "'", "m", " ", "s", "o", "r", "r", "y", ",", " ", "I", "'", "m",
    " ", "f", "e", "e", "l", "i", "n", "g", " ", "a", " ", "b", "i", "t",
    " ", "s", "t", "u", "c", "k", ".", " ", "L", "e", "t", "'", "s", " ",
    "t", "a", "k", "e", " ", "a", " ", "d", "e", "e", "p", " ", "b", "r",
    "e", "a", "t", "h", " ", "t", "o", "g", "e", "t", "h", "e", "r", ".",
    " ", "H", "o", "w", " ", "e", "l", "s", "e", " ", "c", "a", "n", " ",
    "I", " ", "s", "u", "p", "p", "o", "r", "t", " ", "y", "o", "u", "?">>

\* App.tsx:314, substituted for a study-plan reply without text
PlanEmptyFallback ==
  <<"I", " ", "c", "o", "u", "l", "d", "n", "'", "t", " ", "g", "e", "n",
    "e", "r", "a", "t", "e", " ", "a", " ", "p", "l", "a", "n", " ", "r",
    "i", "g", "h", "t", " ", "n", "o", "w", ",", " ", "b", "u", "t", " ",
    "l", "e", "t", "'", "s", " ", "t", "r", "y", " ", "b", "r", "e", "a",
    "k", "i", "n", "g", " ", "i", "t", " ", "d", "o", "w", "n", " ", "t",
    "o", "g", "e", "t", "h", "e", "r", ".">>

\* App.tsx:316, appended when the study-plan call rejects
PlanFailureFallback ==
  <<"I", " ", "h", "i", "t", " ", "a", " ", "s", "n", "a", "g", ".", " ",
    "L", "e", "t", "'", "s", " ", "t", "r", "y", " ", "a", "g", "a", "i",
    "n", " ", "i", "n", " ", "a", " ", "m", "o", "m", "e", "n", "t", ".">>

\* App.tsx:291, the template of the study-plan user message
PlanUserPrefix ==
  <<"H", "e", "l", "p", " ", "m", "e", " ", "p", "l", "a", "n", " ", "f",
    "o", "r", ":", " ">>

\* App.tsx:282, the prompt template up to the task
PromptPrefix ==
  <<"G", "e", "n", "e", "r", "a", "t", "e", " ", "a", " ", "3", "-", "s",
    "t", "e", "p", " ", "s", "t", "u", "d", "y", " ", "p", "l", "a", "n",
    " ", "f", "o", "r", " ", "t", "h", "i", "s", " ", "M", "Y", "P", " ",
    "t", "a", "s", "k", ":", " ", "\"">>

\* App.tsx:282-287, the prompt template after the task
PromptSuffix ==
  <<"\"", ".", " ", "\n", " ", " ", " ", " ", "U", "s", "e", " ", "t", "h",
    "e", " ", "c", "h", "e", "c", "k", "l", "i", "s", "t", " ", "f", "o",
    "r", "m", "a", "t", ":", "\n", " ", " ", " ", " ", "[", " ", "]", " ",
    "S", "t", "e", "p", " ", "1", ":", " ", ".", ".", ".", "\n", " ", " ",
    " ", " ", "[", " ", "]", " ", "S", "t", "e", "p", " ", "2", ":", " ",
    ".", ".", ".", "\n", " ", " ", " ", " ", "[", " ", "]", " ", "S", "t",
    "e", "p", " ", "3", ":", " ", ".", ".", ".", "\n", " ", " ", " ", " ",
    "M", "a", "k", "e", " ", "i", "t", " ", "a", "c", "t", "i", "o", "n",
    "a", "b", "l", "e", " ", "a", "n", "d", " ", "s", "u", "p", "p", "o",
    "r", "t", "i", "v", "e", ".">>

\* App.tsx:101 and 148, the default title
NewChatTitle == <<"N", "e", "w", " ", "C", "h", "a", "t">>

\* App.tsx:259, the literal that opens /\[SUGGESTIONS: (.*?)\]/
SuggestionsOpen ==
  <<"[", "S", "U", "G", "G", "E", "S", "T", "I", "O", "N", "S", ":", " ">>

\* App.tsx:91
CRISIS_KEYWORDS ==
  << <<"s", "u", "i", "c", "i", "d", "e">>,
     <<"k", "i", "l", "l", " ", "m", "y", "s", "e", "l", "f">>,
     <<"s", "e", "l", "f", "-", "h", "a", "r", "m">>,
     <<"e", "n", "d", " ", "i", "t", " ", "a", "l", "l">>,
     <<"h", "u", "r", "t", " ", "m", "y", "s", "e", "l", "f">>,
     <<"g", "i", "v", "i", "n", "g", " ", "u", "p", " ", "o", "n", " ",
       "l", "i", "f", "e">> >>

\* ---------------------------------------------------------- string library
Range(s) == {s[i] : i \in DOMAIN s}

UpperCase ==
  <<"A", "B", "C", "D", "E", "F", "G", "H", "I", "J", "K", "L", "M",
    "N", "O", "P", "Q", "R", "S", "T", "U", "V", "W", "X", "Y", "Z">>

LowerCase ==
  <<"a", "b", "c", "d", "e", "f", "g", "h", "i", "j", "k", "l", "m",
    "n", "o", "p", "q", "r", "s", "t", "u", "v", "w", "x", "y", "z">>

\* String.prototype.toLowerCase, on the ASCII letters
toLowerCase(s) ==
  [i \in 1..Len(s) |->
     IF \E k \in 1..26 : UpperCase[k] = s[i]
     THEN LowerCase[CHOOSE k \in 1..26 : UpperCase[k] = s[i]]
     ELSE s[i]]

\* s has k at position i
StartsWithAt(s, k, i) ==
  /\ i >= 1
  /\ i + Len(k) - 1 <= Len(s)
  /\ SubSeq(s, i, i + Len(k) - 1) = k

\* String.prototype.includes
includes(s, k) == \E i \in 1..(Len(s) + 1) : StartsWithAt(s, k, i)

\* White space as String.prototype.trim sees it
WhiteSpace == {" ", "\n", "\t", "\r"}

\* trim that removes nothing
noTrim(s) == s

\* String.prototype.trim
trim(s) ==
  LET keep == {i \in 1..Len(s) : s[i] \notin WhiteSpace}
  IN  IF keep = {} THEN <<>>
      ELSE SubSeq(s, CHOOSE i \in keep : \A j \in keep : i <= j,
                     CHOOSE i \in keep : \A j \in keep : i >= j)

\* String.prototype.slice(0, n)
slice0(s, n) == SubSeq(s, 1, IF Len(s) < n THEN Len(s) ELSE n)

\* String.prototype.split(","): the pieces between the commas, empty ones kept
RECURSIVE split(_)
split(s) ==
  LET commas == {i \in 1..Len(s) : s[i] = ","}
  IN  IF commas = {} THEN <<s>>
      ELSE LET c == CHOOSE i \in commas : \A j \in commas : i <= j
           IN  <<SubSeq(s, 1, c - 1)>> \o split(SubSeq(s, c + 1, Len(s)))

\* The characters "." of a regular expression does not match
LineTerminators == {"\n", "\r", "U+2028", "U+2029"}

\* The first "]" at or after position p of s, 0 when there is none
FirstClose(s, p) ==
  LET closes == {j \in p..Len(s) : s[j] = "]"}
  IN  IF closes = {} THEN 0 ELSE CHOOSE j \in closes : \A k \in closes : j <= k

\* /\[SUGGESTIONS: (.*?)\]/ matches s from position i: the literal is at i and
\* the lazy (.*?) reaches the first "]" without crossing a line terminator
MatchesAt(s, i) ==
  /\ StartsWithAt(s, SuggestionsOpen, i)
  /\ LET p == i + Len(SuggestionsOpen)
         j == FirstClose(s, p)
     IN  /\ j # 0
         /\ \A k \in p..(j - 1) : s[k] \notin LineTerminators

\* aiText.match(/\[SUGGESTIONS: (.*?)\]/): the leftmost match, as
\* [found, start, end, payload]
suggestionMatch(s) ==
  LET starts == {i \in 1..Len(s) : MatchesAt(s, i)}
  IN  IF starts = {} THEN [found |-> FALSE, start |-> 0, end |-> 0, payload |-> <<>>]
      ELSE LET i == CHOOSE a \in starts : \A b \in starts : a <= b
               p == i + Len(SuggestionsOpen)
               j == FirstClose(s, p)
           IN  [found |-> TRUE, start |-> i, end |-> j,
                payload |-> SubSeq(s, p, j - 1)]

\* chipsOf without the trim of each chip
chipsUntrimmed(payload) == split(payload)

\* suggestionMatch[1].split(',').map(s => s.trim())
chipsOf(payload) ==
  LET pieces == split(payload)
  IN  [i \in 1..Len(pieces) |-> trim(pieces[i])]

\* aiText.replace(/\[SUGGESTIONS: .*?\]/, '').trim()
removeDirective(s) ==
  LET m == suggestionMatch(s)
  IN  IF m.found
      THEN trim(SubSeq(s, 1, m.start - 1) \o SubSeq(s, m.end + 1, Len(s)))
      ELSE trim(s)

\* Lines 256-264: the text stored and the chips shown for a reply text;
\* a reply without text is the empty sequence
parse(responseText) ==
  LET aiText == IF responseText = <<>> THEN EmptyReplyFallback ELSE responseText
      m == suggestionMatch(aiText)
  IN  IF m.found
      THEN [found |-> TRUE, cleanText |-> removeDirective(aiText),
            chips |-> chipsOf(m.payload)]
      ELSE [found |-> FALSE, cleanText |-> aiText, chips |-> <<>>]

\* Line 223: CRISIS_KEYWORDS.some(k => messageText.toLowerCase().includes(k))
detect(messageText) ==
  \E n \in 1..Len(CRISIS_KEYWORDS) :
    includes(toLowerCase(messageText), CRISIS_KEYWORDS[n])

\* ----------------------------------------------------------------- inputs
\* The first reading of Date.now(); no reading prints as "1"
ClockStart == 2

\* attachedFile === null, and an absent attachment of a message
NoFile == [none |-> TRUE]

\* What the file picker and FileReader deliver (lines 183-194)
Files == {[data |-> "aGk=", mimeType |-> "image/png", name |-> "notes.png"]}

PlainText == <<"h", "i">>
BlankText == <<" ">>
CrisisInput == <<"E", "n", "d", " ", "i", "t", " ", "a", "l", "l">>

\* What the user types into the chat box
InputTexts == {<<>>, PlainText, BlankText, CrisisInput}

PlainTask == <<"e", "s", "s", "a", "y">>
CrisisTask == <<"s", "u", "i", "c", "i", "d", "e">>

\* What the user types into the study-plan form
TaskTexts == {<<>>, PlainTask, CrisisTask}

PlainReply == <<" ", "o", "k", " ">>
DirectiveOnlyReply == SuggestionsOpen \o <<"g", "o", ",", " ", "h", "i", "]">>
DirectiveReply == <<"o", "k", " ">> \o SuggestionsOpen \o CrisisInput \o <<"]">>

\* response.text of the remote model; <<>> is a reply without text
Replies == {<<>>, PlainReply, DirectiveOnlyReply, DirectiveReply}

\* ------------------------------------------------------------------ state
VARIABLES
  chats,          \* useState<Chat[]>, line 96
  currentChatId,  \* line 107
  input,          \* line 115
  isLoading,      \* line 117
  activeTool,     \* line 118
  attachedFile,   \* line 119
  suggestions,    \* line 120
  task,           \* StudyPlanForm's useState, line 862
  pending,        \* the bag of calls of generateContent awaiting their
                  \* reply, each with what the awaiting closure captured
  now,            \* the latest reading of Date.now()
  stored,         \* localStorage's item 'mindease_chats': <<>> when there is
                  \* none, <<v>> when it holds the JSON text of v
  focusMinutes,   \* PomodoroTimer's useState, line 706
  breakMinutes,   \* line 707
  timeLeft,       \* line 708
  isActive,       \* line 709
  mode,           \* line 710
  phase,          \* BreathingExercise's useState, line 812
  count,          \* line 813
  exiting,        \* the widget whose closed overlay AnimatePresence still
                  \* renders (lines 645-665), "none" when there is none
  exitTicked,     \* an interval has fired since that overlay was closed
  events,         \* the number of events handled so far
  arg,            \* the argument of a function checked on its own
  result          \* <<>>, or <<v>> once the function has returned v

\* What the handlers read and write
app == <<chats, currentChatId, input, isLoading, activeTool, attachedFile,
         suggestions, task, pending, now>>

\* What the page holds: the state of App and the item it saves
page == <<app, stored>>

\* What the timer reads and writes
pomodoro == <<focusMinutes, breakMinutes, timeLeft, isActive, mode>>

\* What the breathing guide reads and writes
breathing == <<phase, count>>

\* The state of the two widgets and of their overlay
widgets == <<pomodoro, breathing, exiting, exitTicked>>

vars == <<page, widgets, events, arg, result>>

\* A Message (lines 37-46); type "none" and attachment NoFile are absent fields
Message(role, text, type, attachment) ==
  [role |-> role, text |-> text, type |-> type, attachment |-> attachment]

\* Lines 99-104
initialChat ==
  [id |-> "1", title |-> NewChatTitle,
   messages |-> <<Message("model", WelcomeText, "none", NoFile)>>,
   createdAt |-> ClockStart]

\* JSON.stringify of a message: a field that is absent or undefined is left
\* out of the text
stringifyMessage(m) ==
  LET typed == IF m.type = "none" THEN [role |-> m.role, text |-> m.text]
               ELSE [role |-> m.role, text |-> m.text, type |-> m.type]
  IN  IF m.attachment = NoFile THEN typed
      ELSE typed @@ [attachment |-> [data |-> m.attachment.data,
                                     mimeType |-> m.attachment.mimeType,
                                     name |-> m.attachment.name]]

\* Line 131: JSON.stringify(chats), as the value its text denotes
stringify(cs) ==
  [i \in 1..Len(cs) |->
     [id |-> cs[i].id, title |-> cs[i].title,
      messages |-> [k \in 1..Len(cs[i].messages) |->
                      stringifyMessage(cs[i].messages[k])],
      createdAt |-> cs[i].createdAt]]

\* A message read back from the text: a field the text leaves out reads as
\* undefined
parsedMessage(j) ==
  Message(j.role, j.text,
          IF "type" \in DOMAIN j THEN j.type ELSE "none",
          IF "attachment" \in DOMAIN j THEN j.attachment ELSE NoFile)

\* Line 98: JSON.parse(saved)
JSONparse(v) ==
  [i \in 1..Len(v) |->
     [id |-> v[i].id, title |-> v[i].title,
      messages |-> [k \in 1..Len(v[i].messages) |->
                      parsedMessage(v[i].messages[k])],
      createdAt |-> v[i].createdAt]]

\* Lines 130-132: the effect of a committed render saves the list.  A render
\* that throws commits nothing and runs no effect.
persist ==
  stored' = IF chats' # <<>> THEN <<stringify(chats')>> ELSE stored

\* Lines 96-120 with nothing saved under 'mindease_chats', once the effects of
\* the first render have run
AppInit ==
  /\ stored = <<stringify(<<initialChat>>)>>
  /\ chats = <<initialChat>>
  /\ currentChatId = "1"
  /\ input = <<>>
  /\ isLoading = FALSE
  /\ activeTool = "none"
  /\ attachedFile = NoFile
  /\ suggestions = <<>>
  /\ task = <<>>
  /\ pending = EmptyBag
  /\ now = ClockStart

\* Lines 706-710: the state of a PomodoroTimer when it mounts
PomodoroInit ==
  /\ focusMinutes = 25
  /\ breakMinutes = 5
  /\ timeLeft = 25 * 60
  /\ isActive = FALSE
  /\ mode = "focus"

\* Lines 812-813: the state of a BreathingExercise when it mounts
BreathingInit ==
  /\ phase = "Inhale"
  /\ count = 4

\* No overlay is open or closing
WidgetsInit ==
  /\ PomodoroInit
  /\ BreathingInit
  /\ exiting = "none"
  /\ exitTicked = FALSE

Init ==
  /\ AppInit
  /\ WidgetsInit
  /\ events = 0
  /\ arg = <<>>
  /\ result = <<>>

\* Array.prototype.filter
RECURSIVE filterOut(_, _)
filterOut(cs, id) ==
  IF cs = <<>> THEN <<>>
  ELSE IF cs[1].id = id THEN filterOut(Tail(cs), id)
       ELSE <<cs[1]>> \o filterOut(Tail(cs), id)

\* Line 127: chats.find(c => c.id === currentChatId) || chats[0]
currentChat ==
  LET hits == {i \in 1..Len(chats) : chats[i].id = currentChatId}
  IN  IF hits = {} THEN chats[1]
      ELSE chats[CHOOSE i \in hits : \A j \in hits : i <= j]

\* Line 128
messages == currentChat.messages

\* newTitle without the cut at 20 characters
newTitleWhole(c, newMessages) ==
  LET users == {i \in 1..Len(newMessages) : newMessages[i].role = "user"}
  IN  IF c.title = NewChatTitle /\ users # {}
      THEN newMessages[CHOOSE i \in users : \A j \in users : i <= j].text
      ELSE c.title

\* newTitle without the test of the default title
newTitleAlways(c, newMessages) ==
  LET users == {i \in 1..Len(newMessages) : newMessages[i].role = "user"}
  IN  IF users # {}
      THEN LET firstUserMsg ==
                 newMessages[CHOOSE i \in users : \A j \in users : i <= j].text
           IN  slice0(firstUserMsg, 20)
                 \o (IF Len(firstUserMsg) > 20 THEN <<".", ".", ".">> ELSE <<>>)
      ELSE c.title

\* Lines 171-175: the title after newMessages are stored
newTitle(c, newMessages) ==
  LET users == {i \in 1..Len(newMessages) : newMessages[i].role = "user"}
  IN  IF c.title = NewChatTitle /\ users # {}
      THEN LET firstUserMsg ==
                 newMessages[CHOOSE i \in users : \A j \in users : i <= j].text
           IN  slice0(firstUserMsg, 20)
                 \o (IF Len(firstUserMsg) > 20 THEN <<".", ".", ".">> ELSE <<>>)
      ELSE c.title

\* Lines 167-180: the updater handed to setChats, for the chat id its closure
\* captured
updateCurrentChatMessages(prev, chatId, newMessages) ==
  [i \in 1..Len(prev) |->
     IF prev[i].id = chatId
     THEN [prev[i] EXCEPT !.messages = newMessages,
                          !.title = newTitle(prev[i], newMessages)]
     ELSE prev[i]]

\* The page is rendered: with no session to show, line 128 throws and React
\* unmounts the tree
Mounted == chats # <<>>

\* ---------------------------------------------------------- session store
\* createNewChat with the new session put last
createNewChatLast ==
  /\ Mounted
  /\ \E t \in {now, now + 1} :
       LET newChat ==
             [id |-> ToString(t), title |-> NewChatTitle,
              messages |-> <<Message("model", NewChatWelcomeText, "none", NoFile)>>,
              createdAt |-> t]
       IN  /\ chats' = chats \o <<newChat>>
           /\ currentChatId' = newChat.id
           /\ now' = t
  /\ UNCHANGED <<input, isLoading, activeTool, attachedFile, suggestions, task,
                 pending>>

\* Lines 145-155.  A reading of Date.now() is the one before it or a later one
\* (how much later makes no difference to what is compared); createdAt, which
\* nothing reads, takes the reading of the id
createNewChat ==
  /\ Mounted
  /\ \E t \in {now, now + 1} :
       LET newChat ==
             [id |-> ToString(t), title |-> NewChatTitle,
              messages |-> <<Message("model", NewChatWelcomeText, "none", NoFile)>>,
              createdAt |-> t]
       IN  /\ chats' = <<newChat>> \o chats
           /\ currentChatId' = newChat.id
           /\ now' = t
  /\ UNCHANGED <<input, isLoading, activeTool, attachedFile, suggestions, task,
                 pending>>

\* Lines 157-165; with no chat left, newChats[0].id throws after setChats
deleteChat(id) ==
  /\ Mounted
  /\ IF Len(chats) = 1
     THEN UNCHANGED <<chats, currentChatId>>
     ELSE LET newChats == filterOut(chats, id)
          IN  /\ chats' = newChats
              /\ currentChatId' =
                   IF currentChatId = id /\ newChats # <<>>
                   THEN newChats[1].id ELSE currentChatId
  /\ UNCHANGED <<input, isLoading, activeTool, attachedFile, suggestions, task,
                 pending, now>>

\* Lines 366-369
selectChat(id) ==
  /\ Mounted
  /\ currentChatId' = id
  /\ UNCHANGED <<chats, input, isLoading, activeTool, attachedFile, suggestions,
                 task, pending, now>>

\* Lines 454-457
clearChat ==
  /\ Mounted
  /\ chats' = updateCurrentChatMessages(chats, currentChatId,
                <<Message("model", ClearedText, "none", NoFile)>>)
  /\ UNCHANGED <<currentChatId, input, isLoading, activeTool, attachedFile,
                 suggestions, task, pending, now>>

\* ------------------------------------------------------------ staging area
\* Line 609
setInput(t) ==
  /\ Mounted
  /\ input' = t
  /\ UNCHANGED <<chats, currentChatId, isLoading, activeTool, attachedFile,
                 suggestions, task, pending, now>>

\* Lines 182-198, when the FileReader has loaded the file
handleFileChange(f) ==
  /\ Mounted
  /\ attachedFile' = f
  /\ UNCHANGED <<chats, currentChatId, input, isLoading, activeTool,
                 suggestions, task, pending, now>>

\* Lines 865-881, the same from the study-plan form
formHandleFileChange(f) ==
  /\ Mounted
  /\ activeTool = "study-plan"
  /\ attachedFile' = f
  /\ UNCHANGED <<chats, currentChatId, input, isLoading, activeTool,
                 suggestions, task, pending, now>>

\* Lines 591 and 935: the X of the attachment preview
removeAttachment ==
  /\ Mounted
  /\ attachedFile # NoFile
  /\ attachedFile' = NoFile
  /\ UNCHANGED <<chats, currentChatId, input, isLoading, activeTool,
                 suggestions, task, pending, now>>

\* contentsOf with the newest message alone
contentsOfLast(msgs) ==
  [i \in 1..1 |->
     [role |-> msgs[Len(msgs)].role,
      parts |-> <<[text |-> msgs[Len(msgs)].text]>>
                  \o (IF msgs[Len(msgs)].attachment # NoFile
                      THEN <<[inlineData |->
                                [data |-> msgs[Len(msgs)].attachment.data,
                                 mimeType |-> msgs[Len(msgs)].attachment.mimeType]]>>
                      ELSE <<>>)]]

\* -------------------------------------------------- conversation controller
\* Lines 235-246: the request built from the messages
contentsOf(msgs) ==
  [i \in 1..Len(msgs) |->
     [role |-> msgs[i].role,
      parts |-> <<[text |-> msgs[i].text]>>
                  \o (IF msgs[i].attachment # NoFile
                      THEN <<[inlineData |->
                                [data |-> msgs[i].attachment.data,
                                 mimeType |-> msgs[i].attachment.mimeType]]>>
                      ELSE <<>>)]]

\* withMessage with the new message put first
withMessageFirst(msgs, m) == <<m>> \o msgs

\* Lines 210, 229, 266, 269, 295, 314 and 316: [...msgs, m]
withMessage(msgs, m) == msgs \o <<m>>

\* crisisMsg without its type
crisisMsgUntyped == Message("model", CrisisText, "none", NoFile)

\* Lines 224-228
crisisMsg == Message("model", CrisisText, "crisis", NoFile)

\* Lines 200-254: handleSendMessage up to its await.  An empty text with no
\* staged file returns at line 202.
handleSendMessage(messageText) ==
  IF trim(messageText) = <<>> /\ attachedFile = NoFile
  THEN UNCHANGED app
  ELSE LET userMessage == Message("user", messageText, "none", attachedFile)
           updatedMessages == withMessage(messages, userMessage)
           sent == updateCurrentChatMessages(chats, currentChatId, updatedMessages)
       IN  /\ input' = <<>>
           /\ attachedFile' = NoFile
           /\ suggestions' = <<>>
           /\ IF detect(messageText)
              THEN /\ chats' = updateCurrentChatMessages(sent, currentChatId,
                                 withMessage(updatedMessages, crisisMsg))
                   /\ isLoading' = FALSE
                   /\ UNCHANGED pending
              ELSE /\ chats' = sent
                   /\ isLoading' = TRUE
                   /\ pending' = pending (+) SetToBag(
                        {[kind |-> "chat", chatId |-> currentChatId,
                          updatedMessages |-> updatedMessages,
                          contents |-> contentsOf(updatedMessages)]})
           /\ UNCHANGED <<currentChatId, activeTool, task, now>>

\* Lines 600-601 and 633-639: the Send button, disabled while loading or with
\* nothing to send
submitForm ==
  /\ Mounted
  /\ ~((trim(input) = <<>> /\ attachedFile = NoFile) \/ isLoading)
  /\ handleSendMessage(input)

\* Lines 610-615: Enter in the text box
enterKey ==
  /\ Mounted
  /\ handleSendMessage(input)

\* Lines 557-565: a suggestion chip
chipClick(idx) ==
  /\ Mounted
  /\ handleSendMessage(suggestions[idx])

\* Lines 275-277
startStudyPlan ==
  /\ Mounted
  /\ activeTool' = "study-plan"
  /\ task' = <<>>
  /\ UNCHANGED <<chats, currentChatId, input, isLoading, attachedFile,
                 suggestions, pending, now>>

\* Lines 647-657: onClose of the overlay
closeTool ==
  /\ Mounted
  /\ activeTool # "none"
  /\ activeTool' = "none"
  /\ task' = <<>>
  /\ UNCHANGED <<chats, currentChatId, input, isLoading, attachedFile,
                 suggestions, pending, now>>

\* Line 891
setTask(t) ==
  /\ Mounted
  /\ activeTool = "study-plan"
  /\ task' = t
  /\ UNCHANGED <<chats, currentChatId, input, isLoading, activeTool,
                 attachedFile, suggestions, pending, now>>

\* Lines 279-313: generateStudyPlan up to its await
generateStudyPlan(planTask, attachment) ==
  LET prompt == PromptPrefix \o planTask \o PromptSuffix
      userMsg == Message("user", PlanUserPrefix \o planTask, "none", attachment)
      updatedMessages == withMessage(messages, userMsg)
      parts == <<[text |-> prompt]>>
                 \o (IF attachment # NoFile
                     THEN <<[inlineData |-> [data |-> attachment.data,
                                             mimeType |-> attachment.mimeType]]>>
                     ELSE <<>>)
  IN  /\ isLoading' = TRUE
      /\ activeTool' = "none"
      /\ task' = <<>>
      /\ chats' = updateCurrentChatMessages(chats, currentChatId, updatedMessages)
      /\ pending' = pending (+) SetToBag(
           {[kind |-> "plan", chatId |-> currentChatId,
             updatedMessages |-> updatedMessages,
             contents |-> <<[role |-> "user", parts |-> parts]>>]})
      /\ UNCHANGED <<currentChatId, input, attachedFile, suggestions, now>>

\* Lines 944-950: the Generate button of the form
generateClick ==
  /\ Mounted
  /\ activeTool = "study-plan"
  /\ ~(trim(task) = <<>> /\ attachedFile = NoFile)
  /\ generateStudyPlan(task, attachedFile)

\* Lines 256-266 and 270-272: the reply of a chat call arrives
chatReply(r, responseText) ==
  LET p == parse(responseText)
  IN  /\ suggestions' = IF p.found THEN p.chips ELSE suggestions
      /\ chats' = updateCurrentChatMessages(chats, r.chatId,
                    withMessage(r.updatedMessages,
                                Message("model", p.cleanText, "none", NoFile)))
      /\ isLoading' = FALSE
      /\ UNCHANGED attachedFile

\* Lines 267-272: the chat call rejects
chatFailure(r) ==
  /\ chats' = updateCurrentChatMessages(chats, r.chatId,
                withMessage(r.updatedMessages,
                            Message("model", ChatFailureFallback, "none", NoFile)))
  /\ isLoading' = FALSE
  /\ UNCHANGED <<suggestions, attachedFile>>

\* Lines 314 and 317-320: the reply of a study-plan call arrives
planReply(r, responseText) ==
  /\ chats' = updateCurrentChatMessages(chats, r.chatId,
                withMessage(r.updatedMessages,
                            Message("model",
                                    IF responseText = <<>> THEN PlanEmptyFallback
                                    ELSE responseText,
                                    "none", NoFile)))
  /\ isLoading' = FALSE
  /\ attachedFile' = NoFile
  /\ UNCHANGED suggestions

\* planFailure with the text and the effects of the chat call's rejection
planFailureAsChat(r) == chatFailure(r)

\* Lines 315-320: the study-plan call rejects
planFailure(r) ==
  /\ chats' = updateCurrentChatMessages(chats, r.chatId,
                withMessage(r.updatedMessages,
                            Message("model", PlanFailureFallback, "none", NoFile)))
  /\ isLoading' = FALSE
  /\ attachedFile' = NoFile
  /\ UNCHANGED suggestions

\* The promise of line 248 or 309 resolves; an unmounted tree ignores the
\* state setters
resolve(r, responseText) ==
  /\ BagIn(r, pending)
  /\ pending' = pending (-) SetToBag({r})
  /\ IF Mounted
     THEN IF r.kind = "chat" THEN chatReply(r, responseText)
          ELSE planReply(r, responseText)
     ELSE UNCHANGED <<chats, isLoading, attachedFile, suggestions>>
  /\ UNCHANGED <<currentChatId, input, activeTool, task, now>>

\* The promise of line 248 or 309 rejects
reject(r) ==
  /\ BagIn(r, pending)
  /\ pending' = pending (-) SetToBag({r})
  /\ IF Mounted
     THEN IF r.kind = "chat" THEN chatFailure(r) ELSE planFailure(r)
     ELSE UNCHANGED <<chats, isLoading, attachedFile, suggestions>>
  /\ UNCHANGED <<currentChatId, input, activeTool, task, now>>

\* ------------------------------------------------------------ specification
ChatIds == {chats[i].id : i \in 1..Len(chats)}

\* One event is handled
Event(handler) ==
  /\ events <= MaxEvents - 1
  /\ events' = events + 1
  /\ handler
  /\ persist
  /\ UNCHANGED <<widgets, arg, result>>

Next ==
  \/ Event(createNewChat)
  \/ \E id \in ChatIds : Event(deleteChat(id))
  \/ \E id \in ChatIds : Event(selectChat(id))
  \/ Event(clearChat)
  \/ \E t \in InputTexts : Event(setInput(t))
  \/ \E f \in Files : Event(handleFileChange(f))
  \/ \E f \in Files : Event(formHandleFileChange(f))
  \/ Event(removeAttachment)
  \/ Event(submitForm)
  \/ Event(enterKey)
  \/ \E idx \in 1..Len(suggestions) : Event(chipClick(idx))
  \/ Event(startStudyPlan)
  \/ Event(closeTool)
  \/ \E t \in TaskTexts : Event(setTask(t))
  \/ Event(generateClick)
  \/ \E r \in BagToSet(pending) : \E x \in Replies : Event(resolve(r, x))
  \/ \E r \in BagToSet(pending) : Event(reject(r))

Spec == Init /\ [][Next]_vars

\* ------------------------------------- the turns with every reply delivered
\* The user acts
UserEvent(handler) ==
  /\ events <= MaxUserEvents - 1
  /\ events' = events + 1
  /\ handler
  /\ persist
  /\ UNCHANGED <<widgets, arg, result>>

\* The promise of a call settles
Settles(handler) ==
  /\ handler
  /\ persist
  /\ UNCHANGED <<events, widgets, arg, result>>

\* Some outstanding call resolves or rejects
SomeCallSettles ==
  \E r \in BagToSet(pending) :
    \/ \E x \in Replies : Settles(resolve(r, x))
    \/ Settles(reject(r))

NextAwaited ==
  \/ UserEvent(createNewChat)
  \/ \E id \in ChatIds : UserEvent(deleteChat(id))
  \/ \E id \in ChatIds : UserEvent(selectChat(id))
  \/ UserEvent(clearChat)
  \/ \E t \in InputTexts : UserEvent(setInput(t))
  \/ \E f \in Files : UserEvent(handleFileChange(f))
  \/ \E f \in Files : UserEvent(formHandleFileChange(f))
  \/ UserEvent(removeAttachment)
  \/ UserEvent(submitForm)
  \/ UserEvent(enterKey)
  \/ \E idx \in 1..Len(suggestions) : UserEvent(chipClick(idx))
  \/ UserEvent(startStudyPlan)
  \/ UserEvent(closeTool)
  \/ \E t \in TaskTexts : UserEvent(setTask(t))
  \/ UserEvent(generateClick)
  \/ SomeCallSettles

\* Every call of generateContent resolves or rejects in the end
SpecAwaited == Init /\ [][NextAwaited]_vars /\ WF_vars(SomeCallSettles)


\* ------------------------------------------------- the timer and the guide
\* Lines 645-665 and 687-692.  The three overlays are the children of one
\* AnimatePresence and ToolOverlay has an exit animation: an overlay that is
\* closed stays rendered, its widget mounted and its interval set, until the
\* animation ends.  The overlays carry no key, so an overlay opened meanwhile
\* takes the place of the closing one: the same widget keeps its state,
\* another widget replaces it at once.  The spring of line 691 comes to rest
\* in less than the second of an interval, so at most one interval fires in
\* between.  The state of an unmounted widget is gone, and is shown as the
\* state of its next mount.

\* A PomodoroTimer is rendered
TimerMounted ==
  activeTool = "timer" \/ (exiting = "timer" /\ ~exitTicked)

\* A BreathingExercise is rendered
BreathingMounted ==
  activeTool = "breathing" \/ (exiting = "breathing" /\ ~exitTicked)

\* The PomodoroTimer unmounts, or stays unmounted
timerGone ==
  /\ focusMinutes' = 25
  /\ breakMinutes' = 5
  /\ timeLeft' = 25 * 60
  /\ isActive' = FALSE
  /\ mode' = "focus"

\* The BreathingExercise unmounts, or stays unmounted
breathingGone ==
  /\ phase' = "Inhale"
  /\ count' = 4

\* Line 539: the Focus Timer button
openTimer ==
  /\ activeTool' = "timer"
  /\ IF activeTool = "timer" \/ exiting = "timer"
     THEN UNCHANGED pomodoro
     ELSE timerGone
  /\ breathingGone
  /\ exiting' = "none"
  /\ exitTicked' = FALSE

\* Line 647: onClose of the timer's overlay
closeTimer ==
  /\ activeTool = "timer"
  /\ activeTool' = "none"
  /\ exiting' = "timer"
  /\ exitTicked' = FALSE
  /\ UNCHANGED <<pomodoro, breathing>>

\* Line 534: the Breathing button
openBreathing ==
  /\ activeTool' = "breathing"
  /\ IF activeTool = "breathing" \/ exiting = "breathing"
     THEN UNCHANGED breathing
     ELSE breathingGone
  /\ timerGone
  /\ exiting' = "none"
  /\ exitTicked' = FALSE

\* Line 652: onClose of the guide's overlay
closeBreathing ==
  /\ activeTool = "breathing"
  /\ activeTool' = "none"
  /\ exiting' = "breathing"
  /\ exitTicked' = FALSE
  /\ UNCHANGED <<pomodoro, breathing>>

\* Lines 687-692: the exit animation ends and the closed overlay unmounts
exitComplete ==
  /\ exiting # "none"
  /\ exiting' = "none"
  /\ exitTicked' = FALSE
  /\ timerGone
  /\ breathingGone
  /\ UNCHANGED activeTool

\* breatheTick that counts down to zero before the phase advances
breatheTickToZero ==
  /\ BreathingMounted
  /\ IF count > 0
     THEN /\ count' = count - 1
          /\ UNCHANGED phase
     ELSE IF phase = "Inhale" THEN phase' = "Hold" /\ count' = 7
          ELSE IF phase = "Hold" THEN phase' = "Exhale" /\ count' = 8
          ELSE phase' = "Inhale" /\ count' = 4
  /\ UNCHANGED activeTool

\* Lines 815-833: the interval of line 816 fires
breatheTick ==
  /\ BreathingMounted
  /\ IF count > 1
     THEN /\ count' = count - 1
          /\ UNCHANGED phase
     ELSE IF phase = "Inhale" THEN phase' = "Hold" /\ count' = 7
          ELSE IF phase = "Hold" THEN phase' = "Exhale" /\ count' = 8
          ELSE phase' = "Inhale" /\ count' = 4
  /\ UNCHANGED activeTool

\* Line 792: Start and Pause
toggleActive ==
  /\ activeTool = "timer"
  /\ isActive' = ~isActive
  /\ UNCHANGED <<focusMinutes, breakMinutes, timeLeft, mode, activeTool>>

\* Lines 731-734
handleReset ==
  /\ activeTool = "timer"
  /\ isActive' = FALSE
  /\ timeLeft' = (IF mode = "focus" THEN focusMinutes ELSE breakMinutes) * 60
  /\ UNCHANGED <<focusMinutes, breakMinutes, mode, activeTool>>

\* max1 without the floor of one minute
noMax(n) == n

\* Math.max(1, n)
max1(n) == IF n < 1 THEN 1 ELSE n

\* Lines 736-740; the buttons are rendered while the timer is not active
\* (line 769)
updateFocus(val) ==
  /\ activeTool = "timer"
  /\ ~isActive
  /\ LET newMin == max1(focusMinutes + val)
     IN  /\ focusMinutes' = newMin
         /\ timeLeft' = IF ~isActive /\ mode = "focus" THEN newMin * 60
                        ELSE timeLeft
  /\ UNCHANGED <<breakMinutes, isActive, mode, activeTool>>

\* Lines 742-746
updateBreak(val) ==
  /\ activeTool = "timer"
  /\ ~isActive
  /\ LET newMin == max1(breakMinutes + val)
     IN  /\ breakMinutes' = newMin
         /\ timeLeft' = IF ~isActive /\ mode = "break" THEN newMin * 60
                        ELSE timeLeft
  /\ UNCHANGED <<focusMinutes, isActive, mode, activeTool>>

\* Line 752: the Focus tab
selectFocus ==
  /\ activeTool = "timer"
  /\ mode' = "focus"
  /\ timeLeft' = focusMinutes * 60
  /\ isActive' = FALSE
  /\ UNCHANGED <<focusMinutes, breakMinutes, activeTool>>

\* Line 758: the Rest tab
selectBreak ==
  /\ activeTool = "timer"
  /\ mode' = "break"
  /\ timeLeft' = breakMinutes * 60
  /\ isActive' = FALSE
  /\ UNCHANGED <<focusMinutes, breakMinutes, activeTool>>

\* Lines 712-723: the interval of line 715 fires, and the effect runs again
\* after the render: at zero it stops the timer, flips the mode and reloads
\* the countdown
tick ==
  /\ TimerMounted
  /\ isActive
  /\ timeLeft > 0
  /\ IF timeLeft - 1 = 0
     THEN LET nextMode == IF mode = "focus" THEN "break" ELSE "focus"
          IN  /\ isActive' = FALSE
              /\ mode' = nextMode
              /\ timeLeft' = (IF nextMode = "focus" THEN focusMinutes
                              ELSE breakMinutes) * 60
     ELSE /\ timeLeft' = timeLeft - 1
          /\ UNCHANGED <<isActive, mode>>
  /\ UNCHANGED <<focusMinutes, breakMinutes, activeTool>>

\* What the timer's handlers leave alone
chatState == <<chats, currentChatId, input, isLoading, attachedFile,
               suggestions, task, pending, now, stored>>

\* The user clicks on a widget or its overlay
TimerClick(handler) ==
  /\ events <= MaxTimerClicks - 1
  /\ events' = events + 1
  /\ handler
  /\ UNCHANGED <<chatState, arg, result>>

\* A handler of the PomodoroTimer, which touches nothing outside it
InTimer(handler) ==
  /\ handler
  /\ UNCHANGED <<breathing, exiting, exitTicked>>

\* A second passes for the timer
TimerTick ==
  /\ tick
  /\ exitTicked' = (activeTool # "timer")
  /\ UNCHANGED <<breathing, exiting, chatState, events, arg, result>>

\* A second passes for the guide
BreathingTick ==
  /\ breatheTick
  /\ exitTicked' = (activeTool # "breathing")
  /\ UNCHANGED <<pomodoro, exiting, chatState, events, arg, result>>

\* The closed overlay has slid out
OverlayGone ==
  /\ exitComplete
  /\ UNCHANGED <<chatState, events, arg, result>>

TimerNext ==
  \/ TimerClick(openTimer)
  \/ TimerClick(closeTimer)
  \/ TimerClick(openBreathing)
  \/ TimerClick(closeBreathing)
  \/ TimerClick(InTimer(toggleActive))
  \/ TimerClick(InTimer(handleReset))
  \/ \E val \in {-1, 1} : TimerClick(InTimer(updateFocus(val)))
  \/ \E val \in {-1, 1} : TimerClick(InTimer(updateBreak(val)))
  \/ TimerClick(InTimer(selectFocus))
  \/ TimerClick(InTimer(selectBreak))
  \/ TimerTick
  \/ BreathingTick
  \/ OverlayGone

SpecTimer == Init /\ [][TimerNext]_vars


\* ------------------------------------------------- the page loaded again
\* Lines 96-120: App mounts anew with what localStorage holds.  The calls of
\* the page that is left are gone with it, and the effect of the first render
\* saves the list that was read.
reload ==
  /\ chats' = IF stored # <<>> THEN JSONparse(stored[1]) ELSE <<initialChat>>
  /\ currentChatId' = chats'[1].id
  /\ input' = <<>>
  /\ isLoading' = FALSE
  /\ activeTool' = "none"
  /\ attachedFile' = NoFile
  /\ suggestions' = <<>>
  /\ task' = <<>>
  /\ pending' = EmptyBag
  /\ timerGone
  /\ breathingGone
  /\ exiting' = "none"
  /\ exitTicked' = FALSE
  /\ persist
  /\ UNCHANGED now

\* The user loads the page again
Reload ==
  /\ events <= MaxEvents - 1
  /\ events' = events + 1
  /\ reload
  /\ UNCHANGED <<arg, result>>

NextReload ==
  \/ Next
  \/ Reload

SpecReload == Init /\ [][NextReload]_vars


\* ------------------------------------------------- the crisis detector alone
\* spec.md, section 8: detect of this text is expected to be true
HurtingExample ==
  <<"I", "'", "v", "e", " ", "b", "e", "e", "n", " ", "t", "h", "i", "n",
    "k", "i", "n", "g", " ", "a", "b", "o", "u", "t", " ", "h", "u", "r",
    "t", "i", "n", "g", " ", "m", "y", "s", "e", "l", "f", " ", "l", "a",
    "t", "e", "l", "y">>

\* spec.md, section 8: detect of this text is expected to be false
HomeworkExample ==
  <<"t", "h", "i", "s", " ", "h", "o", "m", "e", "w", "o", "r", "k", " ",
    "i", "s", " ", "k", "i", "l", "l", "i", "n", "g", " ", "m", "e">>

\* What precedes the phrase in a text given to detect
DetectPrefixes ==
  {<<>>,
    <<"I", " ">>,
    <<"M", "a", "y", "b", "e", " ", "I", " ", "w", "i", "l", "l", " ">>}

\* The listed phrases, some in other case, and phrases close to them
DetectCores ==
  {<<"s", "u", "i", "c", "i", "d", "e">>,
    <<"S", "U", "I", "C", "I", "D", "E">>,
    <<"k", "i", "l", "l", " ", "m", "y", "s", "e", "l", "f">>,
    <<"K", "i", "l", "l", " ", "M", "y", "s", "e", "l", "f">>,
    <<"s", "e", "l", "f", "-", "h", "a", "r", "m">>,
    <<"e", "n", "d", " ", "i", "t", " ", "a", "l", "l">>,
    <<"E", "n", "d", " ", "I", "t", " ", "A", "l", "l">>,
    <<"h", "u", "r", "t", " ", "m", "y", "s", "e", "l", "f">>,
    <<"g", "i", "v", "i", "n", "g", " ", "u", "p", " ", "o", "n", " ", "l",
      "i", "f", "e">>,
    <<"s", "u", "i", "c", "i", "d", "a", "l">>,
    <<"s", "e", "l", "f", " ", "h", "a", "r", "m">>,
    <<"h", "u", "r", "t", "i", "n", "g", " ", "m", "y", "s", "e", "l", "f">>,
    <<"k", "i", "l", "l", " ", " ", "m", "y", "s", "e", "l", "f">>,
    <<"k", "i", "l", "l", "i", "n", "g", " ", "m", "e">>,
    <<"e", "n", "d", " ", "i", "t">>,
    <<"g", "i", "v", "e", " ", "u", "p", " ", "o", "n", " ", "l", "i", "f", "e">>,
    <<"h", "o", "m", "e", "w", "o", "r", "k">>,
    <<>>}

\* What follows the phrase
DetectSuffixes ==
  {<<>>,
    <<" ", "n", "o", "w">>,
    <<".">>}

DetectInputs ==
  {p \o c \o s : p \in DetectPrefixes, c \in DetectCores, s \in DetectSuffixes}
    \cup {HurtingExample, HomeworkExample}

DetectInit ==
  /\ AppInit
  /\ WidgetsInit
  /\ events = 0
  /\ arg \in DetectInputs
  /\ result = <<>>

\* detect is called on the text
DetectApply ==
  /\ result = <<>>
  /\ result' = <<detect(arg)>>
  /\ UNCHANGED <<page, widgets, events, arg>>

SpecDetect == DetectInit /\ [][DetectApply]_vars

\* The lower-cased text holds one of the six listed phrases
HoldsListedPhrase(s) ==
  \E k \in Range(CRISIS_KEYWORDS) :
    \E i \in 1..Len(s) : StartsWithAt(toLowerCase(s), k, i)

\* C6: detect is true exactly when the lower-cased text holds a listed phrase;
\* it is true of the "hurting myself" example and false of the homework one.
C6_DetectAndExamples ==
  result # <<>>
    => /\ result[1] = HoldsListedPhrase(arg)
       /\ arg = HurtingExample => result[1] = TRUE
       /\ arg = HomeworkExample => result[1] = FALSE

\* ------------------------------------------------------------------ claims
IsPrefix(a, b) == Len(a) <= Len(b) /\ SubSeq(b, 1, Len(a)) = a

\* A reply or a rejection is delivered in this step
ReplyArrives == BagCardinality(pending') < BagCardinality(pending)

\* A remote call is issued in this step
CallIssued == BagCardinality(pending') > BagCardinality(pending)

\* C1: at most one remote request is outstanding at any time; a submit that
\* arrives while an earlier send awaits its reply issues no call.
C1_AtMostOneOutstanding == BagCardinality(pending) <= 1

\* A chat turn and a study-plan turn of one session both await their reply
Overlap ==
  \E r1, r2 \in BagToSet(pending) :
    r1.kind = "chat" /\ r2.kind = "plan" /\ r1.chatId = r2.chatId

\* C2: when a study-plan turn and a chat turn of one session overlap, the
\* arrival of either reply loses no message of the session: what the session
\* held before the reply is a prefix of what it holds after.
C2_NoMessageLostOnOverlap ==
  [][(Overlap /\ ReplyArrives /\ Len(chats') = Len(chats))
       => \A i \in 1..Len(chats) :
            IsPrefix(chats[i].messages, chats'[i].messages)]_vars

ClearPressed == events' = events + 1 /\ clearChat

CrisisChatTurn ==
  \/ (enterKey \/ submitForm) /\ detect(input)
  \/ \E idx \in 1..Len(suggestions) : chipClick(idx) /\ detect(suggestions[idx])

CrisisPlanTurn == generateClick /\ detect(task)

\* C4: on every entry point, a turn whose text holds a crisis phrase issues no
\* remote call.
C4_CrisisCheckOnEveryTurn ==
  [][(CrisisChatTurn \/ CrisisPlanTurn) => ~CallIssued]_vars

\* C5: a chat turn whose text matches a crisis phrase adds to the session the
\* user message and then the fixed safety message (role model, kind crisis),
\* issues no remote call, leaves the chip list empty and the loading flag false.
C5_CrisisTurn ==
  [][CrisisChatTurn
       => /\ Len(messages') = Len(messages) + 2
          /\ IsPrefix(messages, messages')
          /\ messages'[Len(messages) + 1].role = "user"
          /\ messages'[Len(messages) + 1].attachment = attachedFile
          /\ detect(messages'[Len(messages) + 1].text)
          /\ messages'[Len(messages) + 2] =
               [role |-> "model", text |-> CrisisText, type |-> "crisis",
                attachment |-> NoFile]
          /\ pending' = pending
          /\ suggestions' = <<>>
          /\ isLoading' = FALSE]_vars

\* C5's case: a session ends with a user message and the safety message
C5_Witness ==
  \E i \in 1..Len(chats) :
    LET m == chats[i].messages
    IN  /\ Len(m) >= 3
        /\ m[Len(m) - 1].role = "user"
        /\ detect(m[Len(m) - 1].text)
        /\ m[Len(m)].type = "crisis"
        /\ ~isLoading

\* C7: the store holds at least one session in every reachable state.
C7_AtLeastOneSession == Len(chats) >= 1

\* C8: the active id is the id of exactly one session of the store.
C8_ActiveIdNamesOneSession ==
  Cardinality({i \in 1..Len(chats) : chats[i].id = currentChatId}) = 1

\* C9: no two sessions of the store share an id.
C9_UniqueIds ==
  \A i, j \in 1..Len(chats) : chats[i].id = chats[j].id => i = j

\* C10: no model message with an empty text is ever stored in a session.
C10_NoEmptyModelMessage ==
  \A i \in 1..Len(chats) :
    \A k \in 1..Len(chats[i].messages) :
      chats[i].messages[k].role = "model" => chats[i].messages[k].text # <<>>

\* The fixed text appended when a call of this kind rejects
FailureText(kind) ==
  IF kind = "chat" THEN ChatFailureFallback ELSE PlanFailureFallback

ReachesZero == isActive /\ timeLeft = 1 /\ tick

\* C12: when a running countdown reaches zero the mode flips, the countdown is
\* the new mode's configured duration and the timer is still running; from
\* Focus at 25 minutes the tick that ends the 1500 seconds leaves the mode
\* Rest, the countdown the Rest duration and the timer running.
C12_AutoAdvanceKeepsRunning ==
  [][ReachesZero
       => /\ mode' # mode
          /\ timeLeft' = (IF mode' = "focus" THEN focusMinutes
                          ELSE breakMinutes) * 60
          /\ isActive'
          /\ (mode = "focus" /\ focusMinutes = 25)
               => mode' = "break" /\ timeLeft' = breakMinutes * 60]_vars

\* ------------------------------------------------- the title derivation alone
\* spec.md, section 8: the user message of the title example
ExampleUserText ==
  <<"P", "l", "a", "n", " ", "m", "y", " ", "e", "s", "s", "a", "y", " ",
    "o", "n", " ", "m", "e", "m", "o", "r", "y", " ", "a", "n", "d", " ",
    "i", "d", "e", "n", "t", "i", "t", "y">>

\* spec.md, section 8: the title expected for it
ExampleTitleClaimed ==
  <<"P", "l", "a", "n", " ", "m", "y", " ", "e", "s", "s", "a", "y", " ",
    "o", "n", " ", "m", "e", "m", "o", "U+2026">>

\* Texts of user messages: empty, short, the default title itself, and the
\* example cut around the limit of 20 characters
TitleTexts ==
  {<<>>, PlainText, NewChatTitle, ExampleUserText}
    \cup {SubSeq(ExampleUserText, 1, n) : n \in {19, 20, 21}}

\* The messages handed to updateCurrentChatMessages: none of the user, one of
\* the user, or two with a model message between them
TitleLists ==
  LET welcome == Message("model", WelcomeText, "none", NoFile)
      reply == Message("model", PlainReply, "none", NoFile)
  IN  {<<welcome>>}
        \cup {<<welcome, Message("user", t, "none", NoFile)>> : t \in TitleTexts}
        \cup {<<welcome, Message("user", t, "none", NoFile), reply,
                Message("user", u, "none", NoFile)>> :
                t \in TitleTexts, u \in TitleTexts}

\* The titles of the session before the call
TitlesBefore == {NewChatTitle, PlainText}

\* The store of one session, the id the closure captured, the new messages
TitleInputs ==
  [prev : {<<[initialChat EXCEPT !.title = t]>> : t \in TitlesBefore},
   chatId : {"1", "2"},
   newMessages : TitleLists]

TitleInit ==
  /\ AppInit
  /\ WidgetsInit
  /\ events = 0
  /\ arg \in TitleInputs
  /\ result = <<>>

\* updateCurrentChatMessages is applied to the store
TitleApply ==
  /\ result = <<>>
  /\ result' = <<updateCurrentChatMessages(arg.prev, arg.chatId,
                                           arg.newMessages)>>
  /\ UNCHANGED <<page, widgets, events, arg>>

SpecTitle == TitleInit /\ [][TitleApply]_vars

\* The text of the first user message of msgs, which holds one
FirstUserText(msgs) ==
  msgs[CHOOSE i \in 1..Len(msgs) :
         /\ msgs[i].role = "user"
         /\ \A j \in 1..(i - 1) : msgs[j].role # "user"].text

HasUserMessage(msgs) == \E i \in 1..Len(msgs) : msgs[i].role = "user"

\* The first 20 characters of text, and mark when text is longer
Truncated(text, mark) ==
  IF Len(text) > 20 THEN SubSeq(text, 1, 20) \o mark ELSE text

\* updateCurrentChatMessages has stored messages with one of the user in a
\* session with the default title
DerivesTitle ==
  /\ result # <<>>
  /\ arg.chatId = arg.prev[1].id
  /\ arg.prev[1].title = NewChatTitle
  /\ HasUserMessage(arg.newMessages)

\* C13 as stated: the title of a session titled "New Chat" that receives
\* messages with one of the user becomes the first 20 characters of the first
\* user message's text, with the one-character ellipsis appended when the text
\* is longer; for the example text the title is "Plan my essay on memo" and the
\* ellipsis.
C13_TitleWithEllipsis ==
  DerivesTitle
    => /\ result[1][1].title =
            Truncated(FirstUserText(arg.newMessages), <<"U+2026">>)
       /\ FirstUserText(arg.newMessages) = ExampleUserText
            => result[1][1].title = ExampleTitleClaimed

\* C13 as amended: the title becomes the first 20 characters of the first user
\* message's text, with three full stops appended when the text is longer; for
\* the example text the title is "Plan my essay on mem...".
C13_TitleWithThreeDots ==
  DerivesTitle
    => /\ result[1][1].title =
            Truncated(FirstUserText(arg.newMessages), <<".", ".", ".">>)
       /\ FirstUserText(arg.newMessages) = ExampleUserText
            => result[1][1].title =
                 <<"P", "l", "a", "n", " ", "m", "y", " ", "e", "s", "s", "a", "y", " ",
                   "o", "n", " ", "m", "e", "m", ".", ".", ".">>

\* C13's case: the example text has been stored in a session titled "New
\* Chat" and the title is cut
C13_Witness ==
  /\ DerivesTitle
  /\ FirstUserText(arg.newMessages) = ExampleUserText
  /\ Len(result[1][1].title) = 23

\* C14: once the title of a session differs from "New Chat" no step changes
\* it: a step that keeps the number of sessions keeps the title of every such
\* session, a creation keeps the earlier sessions as they were, and a deletion
\* leaves only sessions that were in the store.
C14_TitleSetOnce ==
  [][/\ Len(chats') = Len(chats)
          => \A i \in 1..Len(chats) :
               chats[i].title # NewChatTitle
                 => chats'[i].title = chats[i].title
     /\ Len(chats') > Len(chats) => Tail(chats') = chats
     /\ Len(chats') < Len(chats) => Range(chats') \subseteq Range(chats)]_vars

\* C14's case: a session was cleared after its title was set and has since
\* received a message of the user with another text, or holds two messages of
\* the user
C14_Witness ==
  \E i \in 1..Len(chats) :
    LET m == chats[i].messages
    IN  /\ chats[i].title # NewChatTitle
        /\ HasUserMessage(m)
        /\ \/ chats[i].title # Truncated(FirstUserText(m), <<".", ".", ".">>)
           \/ Cardinality({k \in 1..Len(m) : m[k].role = "user"}) >= 2

\* ---------------------------------------------------- the reply parser alone
\* spec.md, section 8: the reply of the parse example, its text and its chips
ExampleReplyPre ==
  <<"L", "e", "t", "'", "s", " ", "b", "r", "e", "a", "k", " ", "t", "h",
    "i", "s", " ", "d", "o", "w", "n", ".", " ">>

ExampleClean ==
  <<"L", "e", "t", "'", "s", " ", "b", "r", "e", "a", "k", " ", "t", "h",
    "i", "s", " ", "d", "o", "w", "n", ".">>

ExamplePieces ==
  << <<"M", "a", "k", "e", " ", "a", " ", "p", "l", "a", "n">>,
     <<" ", "T", "a", "k", "e", " ", "a", " ", "b", "r", "e", "a", "k">>,
     <<" ", "T", "a", "l", "k", " ", "t", "o", " ", "s", "o", "m", "e",
       "o", "n", "e">> >>

ExampleChips ==
  << <<"M", "a", "k", "e", " ", "a", " ", "p", "l", "a", "n">>,
     <<"T", "a", "k", "e", " ", "a", " ", "b", "r", "e", "a", "k">>,
     <<"T", "a", "l", "k", " ", "t", "o", " ", "s", "o", "m", "e", "o",
       "n", "e">> >>

\* spec.md, section 8: the reply without a directive
NormalReply ==
  <<"J", "u", "s", "t", " ", "a", " ", "n", "o", "r", "m", "a", "l", " ",
    "r", "e", "p", "l", "y", ",", " ", "n", "o", " ", "d", "i", "r", "e",
    "c", "t", "i", "v", "e", " ", "h", "e", "r", "e", ".">>

\* What precedes a directive in a reply
ParsePres ==
  {<<>>, ExampleReplyPre, <<"o", "k", " ">>, <<" ", "h", "i", "\n">>}

\* The payload of a directive, as the pieces between its commas: one chip,
\* two, the three of the example, an empty piece between two commas, an empty
\* piece after a trailing comma, white space alone, nothing
ParsePieces ==
  {<< <<"a">> >>,
   << <<"g", "o">>, <<" ", "h", "i", " ">> >>,
   ExamplePieces,
   << <<"a">>, <<>>, <<"b">> >>,
   << <<"a">>, <<>> >>,
   << <<" ">> >>,
   << <<>> >>}

\* What follows the directive
ParsePosts == {<<>>, <<" ", "b", "y", "e">>, <<"\n">>}

\* A reply with one well-formed directive
WellFormedCases == [pre : ParsePres, pieces : ParsePieces, post : ParsePosts]

\* The pieces with commas between them
RECURSIVE Join(_)
Join(pieces) ==
  IF Len(pieces) = 1 THEN pieces[1]
  ELSE pieces[1] \o <<",">> \o Join(Tail(pieces))

\* The directive with this payload
Directive(payload) == SuggestionsOpen \o payload \o <<"]">>

TextOf(c) == c.pre \o Directive(Join(c.pieces)) \o c.post

\* Directives without their closing bracket
UnclosedReplies ==
  {pre \o SuggestionsOpen \o Join(pieces) :
     pre \in ParsePres, pieces \in {ExamplePieces, << <<"a">> >>}}

\* Directives with brackets inside the payload
NestedReplies ==
  {pre \o Directive(payload) \o post :
     pre \in {<<>>, <<"o", "k", " ">>},
     payload \in {<<"a", " ", "[", "b", "]", " ", "c">>,
                  <<"a", ",", " ", "[", "b", ",", " ", "c", "]">>,
                  <<"[", "a", "]">>},
     post \in {<<>>, <<" ", "b", "y", "e">>}}

\* Replies without a directive: plain text, text with white space around it,
\* no text, and near misses of the literal
PlainReplies ==
  {NormalReply, PlainReply, <<>>, <<" ", "o", "k", " ", "\n">>,
   <<"[", "s", "u", "g", "g", "e", "s", "t", "i", "o", "n", "s", ":", " ",
     "a", "]">>,
   <<"[", "S", "U", "G", "G", "E", "S", "T", "I", "O", "N", "S", ":", "a", "]">>,
   <<"S", "U", "G", "G", "E", "S", "T", "I", "O", "N", "S", ":", " ", "a", "]">>,
   <<"[", "1", "]", " ", "o", "k">>}

\* Replies with a second directive, or a line break inside the payload
OtherReplies ==
  {<<"x", " ">> \o Directive(<<"a">>) \o <<" ", "y", " ">> \o Directive(<<"b">>),
   Directive(<<"a", "\n", "b">>),
   Directive(<<"a", "\n", "b">>) \o <<" ">> \o Directive(<<"c">>)}

ParseInputs ==
  {TextOf(c) : c \in WellFormedCases}
    \cup UnclosedReplies \cup NestedReplies \cup PlainReplies \cup OtherReplies

ParseInit ==
  /\ AppInit
  /\ WidgetsInit
  /\ events = 0
  /\ arg \in ParseInputs
  /\ result = <<>>

\* Lines 256-264 are applied to the reply text
ParseApply ==
  /\ result = <<>>
  /\ result' = <<parse(arg)>>
  /\ UNCHANGED <<page, widgets, events, arg>>

SpecParse == ParseInit /\ [][ParseApply]_vars

\* The pieces, each without the white space around it
Trimmed(pieces) == [i \in 1..Len(pieces) |-> trim(pieces[i])]

\* C15 as stated: for a reply with a well-formed directive the chips are the
\* pieces of the payload between its commas, each without the white space
\* around it, in order, and cleanText is the reply with the directive removed;
\* for the example reply cleanText is "Let's break this down." and the chips
\* are the three of the example.
C15_ParseRemovesDirective ==
  result # <<>>
    => \A c \in WellFormedCases :
         arg = TextOf(c)
           => /\ result[1].chips = Trimmed(c.pieces)
              /\ result[1].cleanText = c.pre \o c.post
              /\ (c.pre = ExampleReplyPre /\ c.pieces = ExamplePieces
                    /\ c.post = <<>>)
                   => /\ result[1].cleanText = ExampleClean
                      /\ result[1].chips = ExampleChips

\* C15 as amended: cleanText is the reply with the directive removed and then
\* without the white space at its two ends.
C15_ParseRemovesAndTrims ==
  result # <<>>
    => \A c \in WellFormedCases :
         arg = TextOf(c)
           => /\ result[1].found
              /\ result[1].chips = Trimmed(c.pieces)
              /\ result[1].cleanText = trim(c.pre \o c.post)
              /\ (c.pre = ExampleReplyPre /\ c.pieces = ExamplePieces
                    /\ c.post = <<>>)
                   => /\ result[1].cleanText = ExampleClean
                      /\ result[1].chips = ExampleChips

\* C15's case: the example reply has been parsed
C15_Witness ==
  /\ result # <<>>
  /\ arg = ExampleReplyPre \o Directive(Join(ExamplePieces))
  /\ Len(result[1].chips) = 3

\* C16: the chips the parser returns never include an empty chip, whatever the
\* payload: consecutive commas, a trailing comma, white space alone.
C16_NoEmptyChip ==
  result # <<>>
    => \A i \in 1..Len(result[1].chips) : result[1].chips[i] # <<>>

\* C17: a reply whose directive lacks its closing bracket, or has brackets
\* inside its payload, is parsed as a reply without a directive: the text is
\* kept as it is and there are no chips.
C17_MalformedNotFound ==
  (result # <<>> /\ arg \in UnclosedReplies \cup NestedReplies)
    => /\ ~result[1].found
       /\ result[1].cleanText = arg
       /\ result[1].chips = <<>>

\* The reply x of the chat call r, a text without a directive, arrives
PlainReplyArrives(r, x) ==
  /\ Mounted
  /\ r.kind = "chat"
  /\ x # <<>>
  /\ ~suggestionMatch(x).found
  /\ resolve(r, x)

\* C18: when the reply of a chat turn has text and no directive, the model
\* message stored for the turn has the reply's text as it is, white space
\* included, and after the step no chip is shown.
C18_PlainReplyStoredNoChips ==
  [][\A r \in BagToSet(pending) : \A x \in Replies :
       PlainReplyArrives(r, x)
         => /\ \A i \in 1..Len(chats') :
                 chats'[i].id = r.chatId
                   => chats'[i].messages[Len(chats'[i].messages)] =
                        Message("model", x, "none", NoFile)
            /\ suggestions' = <<>>]_vars

\* A turn is started from the chat box, a chip or the study-plan form, and a
\* message is stored for it
TurnStarts ==
  /\ \/ enterKey
     \/ submitForm
     \/ \E idx \in 1..Len(suggestions) : chipClick(idx)
     \/ generateClick
  /\ chats' # chats

\* C19: a staged attachment goes to exactly one message: the step that sends
\* the message carrying it leaves the staging slot empty, so no later message
\* can carry it as well.
C19_AttachmentSentOnce ==
  [][(TurnStarts /\ attachedFile # NoFile)
       => /\ messages'[Len(messages) + 1].attachment = attachedFile
          /\ attachedFile' = NoFile]_vars

\* The text holds nothing but white space
IsBlank(t) == \A i \in 1..Len(t) : t[i] \in WhiteSpace

\* The chat box or a chip submits a blank text while no file is staged
BlankSubmit ==
  /\ attachedFile = NoFile
  /\ \/ (enterKey \/ submitForm) /\ IsBlank(input)
     \/ \E idx \in 1..Len(suggestions) :
          chipClick(idx) /\ IsBlank(suggestions[idx])

\* C20: a submit of an empty or white-space text with no staged attachment
\* changes nothing: the sessions, the active id, the staged attachment, the
\* chips, the input text and the loading flag are as before, and no remote
\* call is made.
C20_BlankSubmitIgnored ==
  [][BlankSubmit
       => /\ UNCHANGED <<chats, currentChatId, attachedFile, suggestions,
                         input, isLoading>>
          /\ pending' = pending]_vars

\* C20's case: Enter was pressed on a text of one space with no file staged,
\* and the session holds its first message alone
C20_Witness ==
  /\ events >= 2
  /\ input = BlankText
  /\ attachedFile = NoFile
  /\ Len(messages) = 1
  /\ pending = EmptyBag

\* The call r settles in this step
CallSettles(r) ==
  /\ BagIn(r, pending)
  /\ pending' = pending (-) SetToBag({r})

\* The session a call was sent from is in the store
InStore(chatId) == \E i \in 1..Len(chats) : chats[i].id = chatId

\* C21: every turn that awaits a reply leaves that state: when its call
\* resolves or rejects, the session it was sent from, if it is still in the
\* store, holds the turn's messages followed by a model message and the
\* loading flag is false; and whenever a call is outstanding, a state follows
\* in which none is and the loading flag is false.
C21_TurnLeavesSending ==
  /\ [][\A r \in BagToSet(pending) :
          CallSettles(r)
            => /\ isLoading' = FALSE
               /\ InStore(r.chatId)
                    => \E i \in 1..Len(chats') :
                         LET m == chats'[i].messages
                         IN  /\ chats'[i].id = r.chatId
                             /\ Len(m) = Len(r.updatedMessages) + 1
                             /\ IsPrefix(r.updatedMessages, m)
                             /\ m[Len(m)].role = "model"]_vars
  /\ (pending # EmptyBag) ~> (pending = EmptyBag /\ ~isLoading)

\* The seconds of a phase of the 4-7-8 guide
PhaseSeconds(p) ==
  IF p = "Inhale" THEN 4 ELSE IF p = "Hold" THEN 7 ELSE 8

\* The phase that follows p
PhaseAfter(p) ==
  IF p = "Inhale" THEN "Hold" ELSE IF p = "Hold" THEN "Exhale" ELSE "Inhale"

\* The guide's state changes while its overlay is neither opened nor closed
GuideTicks ==
  /\ breathing' # breathing
  /\ activeTool' = activeTool
  /\ exiting' = exiting

\* C22: the guide starts at Inhale with the counter at 4; the counter of a
\* phase lies between 1 and the seconds of the phase (4, 7, 8); a tick takes
\* one from the counter, and the tick at which the counter would reach zero
\* moves to the next phase of Inhale, Hold, Exhale, Inhale with the counter at
\* that phase's seconds, so that a phase lasts 4, 7 and 8 ticks; and while the
\* guide is shown a tick can always follow.
C22_BreathingCycle ==
  /\ [](/\ count \in 1..PhaseSeconds(phase)
        /\ activeTool = "breathing" => ENABLED BreathingTick)
  /\ [][GuideTicks
          => IF count - 1 = 0
             THEN /\ phase' = PhaseAfter(phase)
                  /\ count' = PhaseSeconds(phase')
             ELSE /\ phase' = phase
                  /\ count' = count - 1]_vars
  /\ [][(activeTool # "breathing" /\ activeTool' = "breathing"
           /\ exiting # "breathing")
          => phase' = "Inhale" /\ count' = 4]_vars

\* C22's case: the guide is shown in the last second of Exhale
C22_Witness ==
  /\ activeTool = "breathing"
  /\ phase = "Exhale"
  /\ count = 1

\* C23: the step that starts a turn and issues its call, from the chat box, a
\* chip or the study-plan form, leaves the user's message with the staged
\* attachment at the end of the active session, the staging slot empty and the
\* chip list empty.
C23_SendingEntered ==
  [][(TurnStarts /\ CallIssued)
       => /\ Len(messages') = Len(messages) + 1
          /\ IsPrefix(messages, messages')
          /\ messages'[Len(messages')].role = "user"
          /\ messages'[Len(messages')].attachment = attachedFile
          /\ attachedFile' = NoFile
          /\ suggestions' = <<>>]_vars

\* ------------------------------------------------------------------- C24
\* A chat turn issues its call in this step
ChatCallIssued ==
  /\ \/ enterKey
     \/ submitForm
     \/ \E idx \in 1..Len(suggestions) : chipClick(idx)
  /\ CallIssued

\* The call issued in this step
NewCall ==
  CHOOSE r \in BagToSet(pending') : CopiesIn(r, pending') > CopiesIn(r, pending)

\* The request entry e carries the role, the text and the attachment of m
Carries(e, m) ==
  /\ e.role = m.role
  /\ e.parts[1].text = m.text
  /\ IF m.attachment = NoFile
     THEN Len(e.parts) = 1
     ELSE /\ Len(e.parts) = 2
          /\ e.parts[2].inlineData.data = m.attachment.data
          /\ e.parts[2].inlineData.mimeType = m.attachment.mimeType

\* C24: the request of a chat turn is the whole history of the active session
\* at the call: the messages the session held, then the new user message, in
\* order, each entry with the role, text and attachment of its message; a turn
\* started while an earlier call still awaits its reply is no exception.
C24_RequestIsWholeHistory ==
  [][ChatCallIssued
       => /\ Len(messages') = Len(messages) + 1
          /\ IsPrefix(messages, messages')
          /\ messages'[Len(messages')].role = "user"
          /\ NewCall.chatId = currentChatId
          /\ Len(NewCall.contents) = Len(messages')
          /\ \A k \in 1..Len(messages') :
               Carries(NewCall.contents[k], messages'[k])]_vars

\* Two chat calls of one session await their reply, the later one sent before
\* the reply of the earlier one was stored, with a file in its history
C24_Witness ==
  \E r1, r2 \in BagToSet(pending) :
    /\ r1.kind = "chat" /\ r2.kind = "chat"
    /\ r1.chatId = r2.chatId
    /\ Len(r2.contents) = Len(r1.contents) + 1
    /\ Len(r2.contents) >= 3
    /\ \E k \in 1..Len(r2.contents) : Len(r2.contents[k].parts) = 2

\* ------------------------------------------------------------------- C25
\* C25: the saved item follows every change of the session list: with no call
\* outstanding it is the serialization of the whole list the page holds, and a
\* page loaded from it holds the same sessions in the same order, the first
\* one active.
C25_PersistenceFollows ==
  /\ [](pending = EmptyBag => stored = <<stringify(chats)>>)
  /\ [][Reload => /\ chats' = chats
                  /\ currentChatId' = chats'[1].id]_vars

\* ------------------------------------------------------------------- C26
\* cs without its element at position i
WithoutAt(cs, i) == SubSeq(cs, 1, i - 1) \o SubSeq(cs, i + 1, Len(cs))

\* C26: deleting a session while more than one is listed removes that one
\* session and keeps the others in their order; the first remaining session
\* becomes active if the deleted one was, otherwise the active id stays.
C26_DeleteRemovesOne ==
  [][\A id \in ChatIds :
       (deleteChat(id) /\ Len(chats) > 1)
         => /\ \E i \in 1..Len(chats) :
                 chats[i].id = id /\ chats' = WithoutAt(chats, i)
            /\ currentChatId' = IF currentChatId = id THEN chats'[1].id
                                ELSE currentChatId]_vars

\* ------------------------------------------------------------------- C27
\* A session is created in this step
SessionCreated ==
  /\ Mounted
  /\ Len(chats') = Len(chats) + 1
  /\ UNCHANGED <<input, isLoading, activeTool, attachedFile, suggestions, task,
                 pending>>

\* C27: creating a session puts it at the front of the list, titled "New Chat"
\* and holding the welcome message of the assistant and nothing else, makes it
\* the session shown, and leaves every session that was listed as it was, in
\* the same order.
C27_CreateAtFront ==
  [][SessionCreated
       => /\ Tail(chats') = chats
          /\ chats'[1].title = NewChatTitle
          /\ chats'[1].messages =
               <<Message("model", NewChatWelcomeText, "none", NoFile)>>
          /\ currentChatId' = chats'[1].id
          /\ messages' = chats'[1].messages]_vars

\* A session was created after a conversation was held in another one
C27_Witness ==
  /\ Len(chats) >= 2
  /\ chats[1].messages = <<Message("model", NewChatWelcomeText, "none", NoFile)>>
  /\ currentChatId = chats[1].id
  /\ Len(chats[2].messages) >= 3
  /\ chats[2].title # NewChatTitle

\* ------------------------------------------------------------------- C28
\* C28: once the overlay of the timer or of the guide is closed its widget
\* ticks no more, and the widget opened again starts from its initial state:
\* the timer in focus mode at 25:00 and not running, the guide at Inhale, 4.
C28_Teardown ==
  /\ [][activeTool # "timer" => ~TimerTick]_vars
  /\ [][activeTool # "breathing" => ~BreathingTick]_vars
  /\ [][(activeTool # "timer" /\ activeTool' = "timer")
         => /\ mode' = "focus"
            /\ timeLeft' = 25 * 60
            /\ ~isActive']_vars
  /\ [][(activeTool # "breathing" /\ activeTool' = "breathing")
         => /\ phase' = "Inhale"
            /\ count' = 4]_vars

\* ------------------------------------------------------------------- C29
\* The configured duration of the mode the timer is in, in minutes
ModeMinutes == IF mode = "focus" THEN focusMinutes ELSE breakMinutes

\* C29: in every state the timer reaches, whatever was started, paused, reset,
\* selected, adjusted or ticked, both durations are whole minutes of at least
\* one, and the countdown lies between 0 and 60 times the duration of the
\* mode the timer is in.
C29_TimerBounds ==
  /\ focusMinutes \in Nat /\ focusMinutes >= 1
  /\ breakMinutes \in Nat /\ breakMinutes >= 1
  /\ 0 <= timeLeft
  /\ timeLeft <= 60 * ModeMinutes

\* The timer, its focus time shortened, has run through the focus period and
\* counts the break
C29_Witness ==
  /\ activeTool = "timer"
  /\ focusMinutes < 25
  /\ mode = "break"
  /\ isActive
  /\ timeLeft < 60 * breakMinutes

\* ------------------------------------------------------------------- C30
\* The call whose reply or rejection is delivered in this step
SettledCall ==
  CHOOSE r \in BagToSet(pending) : CopiesIn(r, pending') < CopiesIn(r, pending)

\* The positions of the sessions that this step changes
Changed == {i \in 1..Len(chats) : i > Len(chats') \/ chats'[i] # chats[i]}

\* C30: a reply, or the fallback of a failed call, goes to the session its
\* turn was sent from and to no other: whichever session is shown by then, the
\* originating session gets the message and every other session keeps its
\* messages and its title; if the originating session has been deleted the
\* reply is dropped and no session is added.
C30_ReplyToOriginOnly ==
  [][ReplyArrives
       => /\ Len(chats') = Len(chats)
          /\ \A i \in Changed : chats[i].id = SettledCall.chatId
          /\ Cardinality(Changed) <= 1
          /\ (Mounted /\ InStore(SettledCall.chatId))
               => \E i \in 1..Len(chats) :
                    LET m == chats'[i].messages
                    IN  /\ chats[i].id = SettledCall.chatId
                        /\ chats'[i].id = SettledCall.chatId
                        /\ Len(m) = Len(SettledCall.updatedMessages) + 1
                        /\ IsPrefix(SettledCall.updatedMessages, m)
                        /\ m[Len(m)].role = "model"]_vars

\* ------------------------------------------------------------------- C31
\* The position of the last model message of msgs, 0 when there is none
LastModel(msgs) ==
  LET models == {i \in 1..Len(msgs) : msgs[i].role = "model"}
  IN  IF models = {} THEN 0
      ELSE CHOOSE i \in models : \A j \in models : j <= i

\* The chips shown after this step were put up by this step, from the reply
\* that it stores as the last message of the session shown
ChipsOfArrivingReply ==
  /\ ReplyArrives
  /\ SettledCall.kind = "chat"
  /\ SettledCall.chatId = currentChatId'
  /\ \E x \in Replies :
       /\ parse(x).found
       /\ suggestions' = parse(x).chips
       /\ messages'[Len(messages')] =
            Message("model", parse(x).cleanText, "none", NoFile)

\* The session shown and its most recent model message are the same after
\* this step as before
SameLatestReply ==
  /\ currentChatId' = currentChatId
  /\ LastModel(messages') = LastModel(messages)
  /\ messages'[LastModel(messages')] = messages[LastModel(messages)]

\* C31: the chips on display are those of the most recent model reply of the
\* session shown: chips go up only with the reply they were extracted from,
\* stored in the session shown, and chips stay up only while that session is
\* shown and that reply is its most recent one; no switch, create, delete or
\* clear leaves the chips of another session's reply, or of a removed reply,
\* on display.
C31_ChipsOfLatestReply ==
  [][(chats' # <<>> /\ suggestions' # <<>>)
       => IF suggestions' = suggestions /\ ~ReplyArrives
          THEN SameLatestReply
          ELSE ChipsOfArrivingReply]_vars

====
